---------------------------- MODULE Spec2Model ----------------------------
(***************************************************************************)
(* The lexical-grammar layer of xmldom (src/mjs/grammar.mjs): the          *)
(* capability probe, the character-class algebra (chars, chars_without),   *)
(* the pattern combinators (reg, regg), the module's load sequence and the *)
(* productions it builds, together with the matching semantics of the      *)
(* ECMAScript RegExp objects the layer creates.                            *)
(*                                                                         *)
(* A pattern source is a TLA+ string, exactly the text of RegExp.source.   *)
(* A subject string is a sequence of UTF-16 code units (integers).         *)
(***************************************************************************)
EXTENDS Integers, Sequences, FiniteSets, TLC

(***************************************************************************)
(* Text: the String.prototype operations the layer uses.                   *)
(***************************************************************************)

\* The printable ASCII characters in code order: U+0020 .. U+005F and
\* U+0061 .. U+007E (no production's source holds U+0060).
AsciiLow == " !\"#$%&'()*+,-./0123456789:;<=>?@ABCDEFGHIJKLMNOPQRSTUVWXYZ[\\]^_"

AsciiHigh == "abcdefghijklmnopqrstuvwxyz{|}~"

\* The code unit of each of these characters, and of tab, LF and CR.
CodeOf ==
  [c \in {SubSeq(AsciiLow, k, k) : k \in 1..Len(AsciiLow)} |->
      31 + (CHOOSE k \in 1..Len(AsciiLow) : SubSeq(AsciiLow, k, k) = c)]
  @@
  [c \in {SubSeq(AsciiHigh, k, k) : k \in 1..Len(AsciiHigh)} |->
      96 + (CHOOSE k \in 1..Len(AsciiHigh) : SubSeq(AsciiHigh, k, k) = c)]
  @@ ("\t" :> 9) @@ ("\n" :> 10) @@ ("\r" :> 13)

Code(c) == CodeOf[c]

\* source[p] with p counted from 1; "" past either end (JS: undefined).
Ch(str, p) == IF p >= 1 /\ p <= Len(str) THEN SubSeq(str, p, p) ELSE ""

\* The code units of an ASCII string.
Units(str) == [k \in 1..Len(str) |-> Code(SubSeq(str, k, k))]

\* The characters m..n of str (counted from 1), cut to the string's length.
Sub(str, m, n) ==
  IF m > n \/ m > Len(str) THEN ""
  ELSE SubSeq(str, m, IF n > Len(str) THEN Len(str) ELSE n)

\* The 0-based indices >= from at which search occurs in str.
Occurrences(str, search, from) ==
  {i \in from..(Len(str) - Len(search)) : Sub(str, i + 1, i + Len(search)) = search}

\* The least and the greatest of a set of indices, or -1 for none.
Least(at) == IF at = {} THEN -1 ELSE CHOOSE i \in at : \A j \in at : i <= j

Greatest(at) == IF at = {} THEN -1 ELSE CHOOSE i \in at : \A j \in at : i >= j

\* The least 0-based index >= from at which search occurs in str, or -1.
IndexFrom(str, search, from) == Least(Occurrences(str, search, from))

\* String.prototype.indexOf(search)
indexOf(str, search) == IndexFrom(str, search, 0)

\* String.prototype.lastIndexOf(search)
lastIndexOf(str, search) == Greatest(Occurrences(str, search, 0))

\* String.prototype.slice(start, end): a negative index counts from the end.
slice(str, start, end) ==
  LET len  == Len(str)
      from == IF start < 0 THEN (IF len + start < 0 THEN 0 ELSE len + start)
              ELSE (IF start > len THEN len ELSE start)
      to   == IF end < 0 THEN (IF len + end < 0 THEN 0 ELSE len + end)
              ELSE (IF end > len THEN len ELSE end)
  IN IF from >= to THEN "" ELSE SubSeq(str, from + 1, to)

\* A replace that removes the last occurrence instead of the first.
replaceLast(str, search) ==
  LET at == lastIndexOf(str, search)
  IN IF at = -1 THEN str
     ELSE SubSeq(str, 1, at) \o SubSeq(str, at + Len(search) + 1, Len(str))

\* String.prototype.replace(search, "") with a string search: the first
\* occurrence only.
replace(str, search) ==
  LET at == indexOf(str, search)
  IN IF at = -1 THEN str
     ELSE SubSeq(str, 1, at) \o SubSeq(str, at + Len(search) + 1, Len(str))

(***************************************************************************)
(* ECMAScript RegExp: the syntax of a pattern source.  Parse does what     *)
(* `new RegExp(source, flags)` does with the source text: it builds the    *)
(* matcher, or fails with a SyntaxError.  It covers the constructs that    *)
(* occur in the sources of this layer: literal characters, bracket         *)
(* classes with ranges, negation and the escapes \xHH \uHHHH \u{H..} \d,   *)
(* identity escapes of syntax characters, groups (?: ) ( ) (?<name> ),     *)
(* the quantifiers * + ? and their lazy forms, | and the anchors ^ $.      *)
(***************************************************************************)

hasFlag(flags, f) == \E k \in 1..Len(flags) : SubSeq(flags, k, k) = f

IsHex(c) == \E k \in 1..22 : SubSeq("0123456789abcdefABCDEF", k, k) = c

HexVal(c) ==
  IF \E k \in 1..16 : SubSeq("0123456789abcdef", k, k) = c
  THEN (CHOOSE k \in 1..16 : SubSeq("0123456789abcdef", k, k) = c) - 1
  ELSE (CHOOSE k \in 1..6 : SubSeq("ABCDEF", k, k) = c) + 9

RECURSIVE HexRun(_, _)
\* The number of hexadecimal digits of src from position p on.
HexRun(src, p) == IF IsHex(Ch(src, p)) THEN 1 + HexRun(src, p + 1) ELSE 0

RECURSIVE HexNum(_, _, _)
\* The value of the k hexadecimal digits of src that start at position p.
HexNum(src, p, k) ==
  IF k = 0 THEN 0
  ELSE 16 * HexNum(src, p, k - 1) + HexVal(Ch(src, p + k - 1))

\* SyntaxCharacter, and "-" and "/" which may be escaped as themselves.
IsSyntaxChar(c) ==
  c \in {"^", "$", "\\", ".", "*", "+", "?", "(", ")", "[", "]", "{", "}", "|", "/", "-"}

\* What reading a class atom gives: no atom, or the range lo..hi of the
\* characters it stands for (a single character, but for \d) and the
\* position after it.
NoAtom(p) == [ok |-> FALSE, lo |-> 0, hi |-> 0, single |-> FALSE, pos |-> p]

OneChar(cp, p) == [ok |-> TRUE, lo |-> cp, hi |-> cp, single |-> TRUE, pos |-> p]

\* \xHH and \uHHHH: `need` digits are required and `run` are there, with
\* the value val.  Without the u flag an incomplete one stands for the
\* letter x (U+0078) or u (U+0075) itself.
HexEscape(u, p, e, need, run, val) ==
  IF run >= need THEN OneChar(val, p + 2 + need)
  ELSE IF u THEN NoAtom(p)
  ELSE OneChar(IF e = "x" THEN 120 ELSE 117, p + 2)

\* \u{H..} with `run` digits of value val, closed by "}" or not.
CodePointEscape(p, run, val, closed) ==
  IF run >= 1 /\ closed /\ val <= 1114111 THEN OneChar(val, p + 4 + run) ELSE NoAtom(p)

Braced(src, p, run) ==
  CodePointEscape(p, run, HexNum(src, p + 3, run), Ch(src, p + 3 + run) = "}")

\* The escape sequence whose backslash is at position p and whose next
\* character is e.
EscapeOf(src, u, p, e) ==
  CASE e = "x" -> HexEscape(u, p, e, 2, HexRun(src, p + 2), HexNum(src, p + 2, 2))
    [] e = "u" /\ u /\ Ch(src, p + 2) = "{" -> Braced(src, p, HexRun(src, p + 3))
    [] e = "u" -> HexEscape(u, p, e, 4, HexRun(src, p + 2), HexNum(src, p + 2, 4))
    [] e = "d" -> [ok |-> TRUE, lo |-> 48, hi |-> 57, single |-> FALSE, pos |-> p + 2]
    [] IsSyntaxChar(e) -> OneChar(Code(e), p + 2)
    [] OTHER -> NoAtom(p)

\* ClassAtom at position p, where the character c stands.
ClassAtom(src, u, p, c) ==
  CASE c = "\\" -> EscapeOf(src, u, p, Ch(src, p + 1))
    [] c = "" -> NoAtom(p)
    [] OTHER -> OneChar(Code(c), p + 1)

(***************************************************************************)
(* A pattern compiles to a program for a backtracking machine.  Jumps are  *)
(* relative to the instruction that makes them.                            *)
(*   set    consume one character that is in (or, negated, not in) ranges  *)
(*   bol, eol   the assertions ^ and $                                     *)
(*   split  go on at x, and on failure from there at y                     *)
(*   jmp    go on at x                                                     *)
(*   open, close   the two ends of capture group cap                       *)
(*   clear  make the captures lo..hi undefined                             *)
(*   mark, check   an iteration of a quantified atom starts, and ends: it  *)
(*          fails where it consumed nothing                                *)
(*   match  the pattern has matched                                        *)
(***************************************************************************)

Set(neg, items) == [op |-> "set", neg |-> neg, items |-> items]

Split(x, y) == [op |-> "split", x |-> x, y |-> y]

Jmp(x) == [op |-> "jmp", x |-> x]

\* atom*, or atom*? when lazy: every iteration starts with the captures
\* inside the atom undefined, and one that consumes nothing is rejected.
Star(code, lazy, clear) ==
  <<IF lazy THEN Split(Len(code) + 5, 1) ELSE Split(1, Len(code) + 5), [op |-> "mark"], clear>>
  \o code \o <<[op |-> "check"], Jmp(-(Len(code) + 4))>>

\* atom? or atom??
Opt(code, lazy, clear) ==
  <<IF lazy THEN Split(Len(code) + 4, 1) ELSE Split(1, Len(code) + 4), [op |-> "mark"], clear>>
  \o code \o <<[op |-> "check"]>>

\* a | rest: the alternatives are tried from left to right.
Either(a, rest) == <<Split(1, Len(a) + 2)>> \o a \o <<Jmp(Len(rest) + 1)>> \o rest

RECURSIVE Alternation(_)
\* The code of a disjunction, from the code of its alternatives.
Alternation(alts) ==
  IF Len(alts) = 1 THEN alts[1] ELSE Either(alts[1], Alternation(Tail(alts)))

\* The state of reading a pattern: the position; the names of the capture
\* groups opened so far ("" for a group without a name); a stack with one
\* frame per open group, outermost first (the group's capture number, 0
\* for none, the number of groups opened before it, the code of its
\* finished alternatives and that of the one being read); inside a class,
\* the members read so far as inclusive ranges, and the lower end of a
\* range whose "-" has been read; whether an atom has just been read, whose
\* quantifier comes next, with its code and the capture groups glo..ghi
\* inside it.
Reading ==
  [ok |-> TRUE, done |-> FALSE, pos |-> 1, names |-> <<>>, code |-> <<>>,
   stack |-> << [cap |-> 0, before |-> 0, alts |-> <<>>, cur |-> <<>>] >>,
   inClass |-> FALSE, neg |-> FALSE, items |-> <<>>, pending |-> FALSE, lo |-> NoAtom(0),
   got |-> FALSE, atom |-> <<>>, glo |-> 0, ghi |-> 0]

Failed(st) == [st EXCEPT !.ok = FALSE, !.done = TRUE]

\* An atom without groups inside has been read up to position pos.
Shifted(st, ins, pos) ==
  [st EXCEPT !.pos = pos, !.got = TRUE, !.atom = <<ins>>, !.glo = Len(st.names) + 1,
             !.ghi = Len(st.names), !.inClass = FALSE]

\* The range lo-a of a class.  Where an end is \d, the class holds both
\* ends and the "-" (U+002D), but for the u flag.
Range(st, u, lo, a) ==
  CASE lo.single /\ a.single /\ lo.lo <= a.lo ->
         [st EXCEPT !.pos = a.pos, !.pending = FALSE, !.items = Append(@, <<lo.lo, a.lo>>)]
    [] (lo.single /\ a.single) \/ u -> Failed(st)
    [] OTHER ->
         [st EXCEPT !.pos = a.pos, !.pending = FALSE,
                    !.items = @ \o << <<lo.lo, lo.hi>>, <<45, 45>>, <<a.lo, a.hi>> >>]

\* One step inside a class, at the character c which starts the atom a:
\* the closing "]", the upper end of a range, the lower end of one (a "-"
\* follows that is not the last character of the class), or a member.
ClassStep(src, u, st, c, a) ==
  CASE c = "]" -> Shifted(st, Set(st.neg, st.items), st.pos + 1)
    [] ~a.ok -> Failed(st)
    [] st.pending -> Range(st, u, st.lo, a)
    [] Ch(src, a.pos) = "-" /\ Ch(src, a.pos + 1) \notin {"", "]"} ->
         [st EXCEPT !.pos = a.pos + 1, !.pending = TRUE, !.lo = a]
    [] OTHER -> [st EXCEPT !.pos = a.pos, !.items = Append(@, <<a.lo, a.hi>>)]

\* The group that the "(" at position p opens: (...), (?:...), (?<name>...).
GroupKind(src, p) ==
  CASE Ch(src, p + 1) # "?" -> "plain"
    [] Ch(src, p + 2) = ":" -> "nocap"
    [] Ch(src, p + 2) = "<" /\ Ch(src, p + 3) \notin {"=", "!"} -> "named"
    [] OTHER -> "none"

\* The group opens: its body starts at position pos.
Opened(st, pos, captures, name) ==
  [st EXCEPT !.pos = pos,
             !.names = IF captures THEN Append(@, name) ELSE @,
             !.stack = Append(@, [cap |-> IF captures THEN Len(st.names) + 1 ELSE 0,
                                  before |-> Len(st.names), alts |-> <<>>, cur |-> <<>>])]

\* A "(" at the position of st; gt is the index of the next ">".
Open(src, st, kind, gt) ==
  CASE kind = "plain" -> Opened(st, st.pos + 1, TRUE, "")
    [] kind = "nocap" -> Opened(st, st.pos + 3, FALSE, "")
    [] kind = "named" /\ gt > st.pos + 2 -> Opened(st, gt + 2, TRUE, Sub(src, st.pos + 3, gt))
    [] OTHER -> Failed(st)

\* The code of the group, or of the whole pattern, whose last alternative
\* is being read.
Body(top) == Alternation(Append(top.alts, top.cur))

\* A ")": the innermost open group, whose frame is top and whose code is
\* body, has been read.
Closed(st, top, body) ==
  [st EXCEPT !.pos = @ + 1, !.got = TRUE,
             !.atom = IF top.cap = 0 THEN body
                      ELSE <<[op |-> "open", cap |-> top.cap]>> \o body
                           \o <<[op |-> "close", cap |-> top.cap]>>,
             !.glo = top.before + 1, !.ghi = Len(st.names),
             !.stack = SubSeq(@, 1, Len(@) - 1)]

\* The end of the source or of a group, where top is the innermost frame.
End(st, c, top) ==
  CASE c = "" /\ Len(st.stack) = 1 ->
         [st EXCEPT !.done = TRUE, !.code = Append(Body(top), [op |-> "match"])]
    [] c = ")" /\ Len(st.stack) > 1 -> Closed(st, top, Body(top))
    [] OTHER -> Failed(st)

\* An assertion, or a "|": it goes to the innermost frame.
Plain(st, c, depth) ==
  CASE c = "|" ->
         [st EXCEPT !.pos = @ + 1, !.stack[depth].alts = Append(@, st.stack[depth].cur),
                    !.stack[depth].cur = <<>>]
    [] c = "^" -> [st EXCEPT !.pos = @ + 1, !.stack[depth].cur = Append(@, [op |-> "bol"])]
    [] OTHER -> [st EXCEPT !.pos = @ + 1, !.stack[depth].cur = Append(@, [op |-> "eol"])]

\* One step of reading a pattern, at the character c which, where an atom
\* starts there, starts the atom a.
ParseStep(src, u, st, c, a) ==
  CASE st.inClass -> ClassStep(src, u, st, c, a)
    [] c \in {"", ")"} -> End(st, c, st.stack[Len(st.stack)])
    [] c \in {"|", "^", "$"} -> Plain(st, c, Len(st.stack))
    [] c = "(" -> Open(src, st, GroupKind(src, st.pos), IndexFrom(src, ">", st.pos + 2))
    [] c = "[" ->
         [st EXCEPT !.inClass = TRUE, !.neg = Ch(src, st.pos + 1) = "^", !.items = <<>>,
                    !.pos = IF Ch(src, st.pos + 1) = "^" THEN @ + 2 ELSE @ + 1]
    [] c = "." -> Shifted(st, Set(TRUE, << <<10, 10>>, <<13, 13>>, <<8232, 8233>> >>), st.pos + 1)
    [] c \in {"*", "+", "?"} -> Failed(st)
    [] u /\ c \in {"]", "{", "}"} -> Failed(st)
    [] ~a.ok \/ (u /\ c = "\\" /\ Ch(src, st.pos + 1) = "-") -> Failed(st)
    [] OTHER -> Shifted(st, Set(FALSE, << <<a.lo, a.hi>> >>), a.pos)

\* The code of the atom just read goes, quantified, to the innermost frame;
\* the quantifier takes `width` characters.
Push(st, code, width) ==
  [st EXCEPT !.pos = @ + width, !.got = FALSE, !.stack[Len(st.stack)].cur = @ \o code]

\* The atom just read with the quantifier q, lazy or not, that follows it.
Quantified(st, q, lazy, clear) ==
  CASE q = "*" -> Push(st, Star(st.atom, lazy, clear), IF lazy THEN 2 ELSE 1)
    [] q = "+" ->
         Push(st, <<clear>> \o st.atom \o Star(st.atom, lazy, clear), IF lazy THEN 2 ELSE 1)
    [] q = "?" -> Push(st, Opt(st.atom, lazy, clear), IF lazy THEN 2 ELSE 1)
    [] OTHER -> Push(st, st.atom, 0)

\* After a step: an atom just read takes its quantifier.
Reduce(src, st) ==
  IF st.done \/ ~st.got THEN st
  ELSE Quantified(st, Ch(src, st.pos), Ch(src, st.pos + 1) = "?",
                  [op |-> "clear", lo |-> st.glo, hi |-> st.ghi])

RECURSIVE ParseLoop(_, _, _, _)
\* At most k steps from the state st, stopping when the pattern is read.
ParseLoop(src, u, st, k) ==
  CASE st.done \/ k = 0 -> st
    [] k = 1 ->
         Reduce(src, ParseStep(src, u, st, Ch(src, st.pos),
                               ClassAtom(src, u, st.pos, Ch(src, st.pos))))
    [] OTHER -> ParseLoop(src, u, ParseLoop(src, u, st, k \div 2), k - (k \div 2))

\* The compiled form of what has been read: ok is FALSE where the RegExp
\* constructor throws a SyntaxError.
Compiled(st) == [ok |-> st.ok, code |-> st.code, names |-> st.names]

Parse(source, flags) ==
  Compiled(ParseLoop(source, hasFlag(flags, "u"), Reading, Len(source) + 1))

(***************************************************************************)
(* ECMAScript RegExp: matching.  The machine runs one thread at a time: a  *)
(* program counter, an index into the subject s (counted from 0), the      *)
(* captures (<<start, end>> for a group that took part, <<>> for one that  *)
(* did not), the indices at which the open groups began and at which the   *)
(* running iterations began.  A split pushes the alternative thread; a     *)
(* failure resumes the thread pushed last, and with none left the search   *)
(* starts again one character further on.                                  *)
(***************************************************************************)

IsLeadSurrogate(c) == c >= 55296 /\ c <= 56319

IsTrailSurrogate(c) == c >= 56320 /\ c <= 57343

\* The character of s at index i, and the number of code units it takes:
\* a code unit, or with the u flag a whole code point.
CharAt(s, i, u) ==
  IF u /\ i + 2 <= Len(s) /\ IsLeadSurrogate(s[i + 1]) /\ IsTrailSurrogate(s[i + 2])
  THEN [cp |-> 65536 + (s[i + 1] - 55296) * 1024 + (s[i + 2] - 56320), w |-> 2]
  ELSE [cp |-> s[i + 1], w |-> 1]

IsLineTerminator(c) == c \in {10, 13, 8232, 8233}

InRanges(items, cp) == \E k \in 1..Len(items) : items[k][1] <= cp /\ cp <= items[k][2]

ResetCaps(caps, lo, hi) ==
  [k \in 1..Len(caps) |-> IF k >= lo /\ k <= hi THEN <<>> ELSE caps[k]]

\* The machine about to try a match at index `start`.
StartAt(matcher, start) ==
  [done |-> FALSE, found |-> FALSE, start |-> start, pc |-> 1, i |-> start,
   caps |-> [k \in 1..Len(matcher.names) |-> <<>>],
   begun |-> [k \in 1..Len(matcher.names) |-> 0],
   marks |-> <<>>, stack |-> <<>>]

\* The thread pushed last goes on.
Resume(st, thread) ==
  [st EXCEPT !.pc = thread.pc, !.i = thread.i, !.caps = thread.caps,
             !.begun = thread.begun, !.marks = thread.marks,
             !.stack = SubSeq(@, 1, Len(@) - 1)]

\* The running thread fails.
Fail(matcher, s, fl, st) ==
  CASE Len(st.stack) > 0 -> Resume(st, st.stack[Len(st.stack)])
    [] st.start >= Len(s) -> [st EXCEPT !.done = TRUE]
    [] OTHER -> StartAt(matcher, st.start + CharAt(s, st.start, fl.u).w)

\* The instruction ins of the running thread, at index i where the
\* character ch stands; `failed` is the machine after the thread fails.
MatchStep(s, fl, st, ins, i, ch, failed) ==
  CASE ins.op = "set" ->
         IF i < Len(s) /\ (InRanges(ins.items, ch.cp) # ins.neg)
         THEN [st EXCEPT !.pc = @ + 1, !.i = i + ch.w]
         ELSE failed
    [] ins.op = "bol" ->
         IF i = 0 \/ (fl.m /\ IsLineTerminator(s[i])) THEN [st EXCEPT !.pc = @ + 1] ELSE failed
    [] ins.op = "eol" ->
         IF i = Len(s) \/ (fl.m /\ IsLineTerminator(s[i + 1]))
         THEN [st EXCEPT !.pc = @ + 1]
         ELSE failed
    [] ins.op = "split" ->
         [st EXCEPT !.pc = @ + ins.x,
                    !.stack = Append(@, [pc |-> st.pc + ins.y, i |-> i, caps |-> st.caps,
                                         begun |-> st.begun, marks |-> st.marks])]
    [] ins.op = "jmp" -> [st EXCEPT !.pc = @ + ins.x]
    [] ins.op = "open" -> [st EXCEPT !.pc = @ + 1, !.begun[ins.cap] = i]
    [] ins.op = "close" ->
         [st EXCEPT !.pc = @ + 1, !.caps[ins.cap] = <<st.begun[ins.cap], i>>]
    [] ins.op = "clear" -> [st EXCEPT !.pc = @ + 1, !.caps = ResetCaps(@, ins.lo, ins.hi)]
    [] ins.op = "mark" -> [st EXCEPT !.pc = @ + 1, !.marks = Append(@, i)]
    [] ins.op = "check" ->
         IF st.marks[Len(st.marks)] = i THEN failed
         ELSE [st EXCEPT !.pc = @ + 1, !.marks = SubSeq(@, 1, Len(@) - 1)]
    [] OTHER -> [st EXCEPT !.done = TRUE, !.found = TRUE]

RECURSIVE MatchLoop(_, _, _, _, _)
\* At most k instructions from the state st.
MatchLoop(matcher, s, fl, st, k) ==
  CASE st.done \/ k = 0 -> st
    [] k = 1 ->
         MatchStep(s, fl, st, matcher.code[st.pc], st.i, CharAt(s, st.i, fl.u),
                   Fail(matcher, s, fl, st))
    [] OTHER ->
         MatchLoop(matcher, s, fl, MatchLoop(matcher, s, fl, st, k \div 2), k - (k \div 2))

RECURSIVE MatchRun(_, _, _, _, _)
\* The machine run until it stops: k instructions, then four times as many.
MatchRun(matcher, s, fl, st, k) ==
  IF st.done THEN st
  ELSE MatchRun(matcher, s, fl, MatchLoop(matcher, s, fl, st, k), 4 * k)

NoMatch == [found |-> FALSE, index |-> 0, end |-> 0, caps |-> <<>>, names |-> <<>>]

\* The match record of a machine that has stopped, or NoMatch for null.
MatchOf(st, names) ==
  IF st.found
  THEN [found |-> TRUE, index |-> st.start, end |-> st.i, caps |-> st.caps, names |-> names]
  ELSE NoMatch

\* RegExp.prototype.exec of a pattern without the g and y flags: the first
\* index at which the pattern matches, with the first way it matches there.
exec(regexp, s) ==
  MatchOf(MatchRun(regexp.matcher, s,
                   [u |-> hasFlag(regexp.flags, "u"), m |-> hasFlag(regexp.flags, "m")],
                   StartAt(regexp.matcher, 0), 64),
          regexp.matcher.names)

\* RegExp.prototype.test
test(regexp, s) == exec(regexp, s).found

\* match[0]
Matched(match, s) == SubSeq(s, match.index + 1, match.end)

\* The number of the capture group of that name.
GroupNumber(names, name) == CHOOSE k \in 1..Len(names) : names[k] = name

\* A capture as text: <<-1>> for undefined.
Captured(cap, s) == IF cap = <<>> THEN <<-1>> ELSE SubSeq(s, cap[1] + 1, cap[2])

\* match.groups[name]
GroupOf(match, name, s) == Captured(match.caps[GroupNumber(match.names, name)], s)

(***************************************************************************)
(* JavaScript values.  An expression evaluates to a value or throws; a     *)
(* thrown exception is carried as a value of type "throw", and a call one  *)
(* of whose arguments threw is never made: the exception propagates.       *)
(***************************************************************************)

Undefined == [type |-> "undefined"]

Str(text) == [type |-> "string", value |-> text]

Bool(b) == [type |-> "boolean", value |-> b]

Num(n) == [type |-> "number", value |-> n]

Function(name) == [type |-> "function", name |-> name]

\* The RegExp object of a source that compiled, with its matcher; the
\* SyntaxError thrown for one that did not.
RegExpObject(source, flags, compiled) ==
  IF compiled.ok
  THEN [type |-> "RegExp", source |-> source, flags |-> flags,
        matcher |-> [code |-> compiled.code, names |-> compiled.names]]
  ELSE [type |-> "throw", error |-> "SyntaxError"]

\* A regular expression literal /source/ (no flags).
Literal(source) == RegExpObject(source, "", Parse(source, ""))

Throw(error) == [type |-> "throw", error |-> error]

Threw(v) == v.type = "throw"

\* ToBoolean
Truthy(v) ==
  CASE v.type = "undefined" -> FALSE
    [] v.type = "boolean" -> v.value
    [] v.type = "string" -> v.value # ""
    [] v.type = "number" -> v.value # 0
    [] OTHER -> TRUE

\* The first thrown exception among the argument values, if any.
Thrown(args) ==
  IF \E k \in 1..Len(args) : Threw(args[k])
  THEN args[CHOOSE k \in 1..Len(args) :
              Threw(args[k]) /\ \A h \in 1..(k - 1) : ~Threw(args[h])]
  ELSE Undefined

\* new RegExp(source, flags): a SyntaxError when the source is no pattern.
\* The source of the empty pattern reads "(?:)".
NewRegExp(source, flags) ==
  RegExpObject(IF source = "" THEN "(?:)" ELSE source, flags, Parse(source, flags))

(***************************************************************************)
(* The state of the module.                                                *)
(***************************************************************************)
VARIABLES
  RegExp,           \* the ambient engine: what it does with the probe pattern
  UNICODE_SUPPORT,  \* the module's capability flag (undefined until written)
  exports,          \* the module's bindings, by name (undefined until written)
  pc,               \* the next module-level statement to run; 0 when the load threw
  log,              \* the names written so far, in the order of the writes
  call              \* the call a client is making, with its result

vars == <<RegExp, UNICODE_SUPPORT, exports, pc, log, call>>

(***************************************************************************)
(* The capability probe.                                                   *)
(***************************************************************************)

\* An engine, by what it does with the probe: the constructor throws or
\* returns, and exec throws, gives null, gives a result that has no element
\* 0 ("empty"), or gives a match whose match[0] has the given length.
Engine(construct, execs, length) ==
  [type |-> "function", construct |-> construct, exec |-> execs, length |-> length]

\* The body of the try block, for the engine chosen.
Probe(impl) ==
  IF impl.construct = "throws" THEN Throw("SyntaxError")
  ELSE IF impl.exec = "throws" THEN Throw("Error")
  ELSE IF impl.exec = "null" THEN Bool(FALSE)
  ELSE IF impl.exec = "empty" THEN Throw("TypeError")
  ELSE Bool(impl.length = 2)

\* A detectUnicodeSupport whose try block has no catch.
detectUnicodeSupportUncaught(RegExpImpl) ==
  Probe(IF RegExpImpl.type # "function" THEN RegExp ELSE RegExpImpl)

detectUnicodeSupport(RegExpImpl) ==
  LET impl == IF RegExpImpl.type # "function" THEN RegExp ELSE RegExpImpl
      body == Probe(impl)
  IN IF Threw(body) THEN Bool(FALSE) ELSE body

(***************************************************************************)
(* The character-class algebra and the combinators.                        *)
(***************************************************************************)

\* A chars that ends the body at the first "]" instead of the last.
chars_to_first_bracket(regexp) ==
  IF Threw(regexp) THEN regexp
  ELSE IF Ch(regexp.source, 1) # "[" THEN Throw("Error")
  ELSE Str(slice(regexp.source, 1, indexOf(regexp.source, "]")))

chars(regexp) ==
  IF Threw(regexp) THEN regexp
  ELSE IF Ch(regexp.source, 1) # "[" THEN Throw("Error")
  ELSE Str(slice(regexp.source, 1, lastIndexOf(regexp.source, "]")))

\* A chars_without that lacks the check of the position of "-".
chars_without_any_hyphen(regexp, search) ==
  IF Threw(regexp) THEN regexp
  ELSE IF Ch(regexp.source, 1) # "[" THEN Throw("Error")
  ELSE IF ~Truthy(search) \/ search.type # "string" THEN Throw("Error")
  ELSE IF indexOf(regexp.source, search.value) = -1 THEN Throw("Error")
  ELSE NewRegExp(replace(regexp.source, search.value),
                 IF Truthy(UNICODE_SUPPORT) THEN "u" ELSE "")

chars_without(regexp, search) ==
  IF Threw(regexp) THEN regexp
  ELSE IF Ch(regexp.source, 1) # "[" THEN Throw("Error")
  ELSE IF ~Truthy(search) \/ search.type # "string" THEN Throw("Error")
  ELSE IF indexOf(regexp.source, search.value) = -1 THEN Throw("Error")
  ELSE IF search.value = "-" /\ indexOf(regexp.source, search.value) # 1 THEN Throw("Error")
  ELSE NewRegExp(replace(regexp.source, search.value),
                 IF Truthy(UNICODE_SUPPORT) THEN "u" ELSE "")

\* A map callback that lets "|" through.
regPartUnchecked(self, part) ==
  IF part.type = "string" THEN part
  ELSE IF part.type = "RegExp" THEN Str(part.source)
  ELSE IF part.type = "undefined" THEN Throw("TypeError")
  ELSE Undefined

\* What the map callback of reg returns for one part (a throw for "|").
regPart(self, part) ==
  LET isStr == part.type = "string"
  IN IF isStr /\ self.type = "undefined" /\ part.value = "|" THEN Throw("Error")
     ELSE IF isStr THEN part
     ELSE IF part.type = "RegExp" THEN Str(part.source)
     ELSE IF part.type = "undefined" THEN Throw("TypeError")
     ELSE Undefined

RECURSIVE join(_)
\* Array.prototype.join(''): undefined elements read as the empty string.
join(parts) ==
  IF Len(parts) = 0 THEN ""
  ELSE (IF Head(parts).type = "string" THEN Head(parts).value ELSE "") \o join(Tail(parts))

\* A reg that sets the flags chars_without sets: no m flag.
reg_this_without_multiline(self, args) ==
  LET parts == [k \in 1..Len(args) |-> regPart(self, args[k])]
  IN IF Threw(Thrown(args)) THEN Thrown(args)
     ELSE IF Threw(Thrown(parts)) THEN Thrown(parts)
     ELSE NewRegExp(join(parts), IF Truthy(UNICODE_SUPPORT) THEN "u" ELSE "")

\* reg called with the given `this`.
reg_this(self, args) ==
  LET parts == [k \in 1..Len(args) |-> regPart(self, args[k])]
  IN IF Threw(Thrown(args)) THEN Thrown(args)
     ELSE IF Threw(Thrown(parts)) THEN Thrown(parts)
     ELSE NewRegExp(join(parts), IF Truthy(UNICODE_SUPPORT) THEN "mu" ELSE "m")

\* reg called as a plain function of the module: `this` is undefined.
reg(args) == reg_this(Undefined, args)

regg(args) ==
  IF Threw(Thrown(args)) THEN Thrown(args)
  ELSE IF Len(args) = 0 THEN Throw("Error")
  ELSE reg_this(Function("regg"), <<Str("(?:")>> \o args \o <<Str(")")>>)

(***************************************************************************)
(* The grammar table: the initialiser of each module-level binding, read   *)
(* in the state in which its statement runs.                               *)
(***************************************************************************)

Char == Literal("[-\\x09\\x0A\\x0D\\x20-\\x2C\\x2E-\\uD7FF\\uE000-\\uFFFD]")

Char_astral == reg(<<Str("["), chars(exports["Char"]), Str("\\u{10000}-\\u{10FFFF}"), Str("]")>>)

SChar == Literal("[\\x20\\x09\\x0D\\x0A]")

SChar_s == chars(exports["_SChar"])

S == reg(<<exports["_SChar"], Str("+")>>)

S_OPT == reg(<<exports["_SChar"], Str("*")>>)

NameStartChar ==
  Literal("[:_a-zA-Z\\xC0-\\xD6\\xD8-\\xF6\\xF8-\\u02FF\\u0370-\\u1FFF\\u200C-\\u200D\\u2070-\\u218F\\u2C00-\\u2FEF\\u3001-\\uD7FF\\uF900-\\uFDCF\\uFDF0-\\uFFFD]")

NameStartChar_astral ==
  reg(<<Str("["), chars(exports["NameStartChar"]), Str("\\u{10000}-\\u{10FFFF}"), Str("]")>>)

NameStartChar_s == chars(exports["NameStartChar"])

NameChar ==
  reg(<<Str("["), exports["NameStartChar_s"], chars(Literal("[-.0-9\\xB7]")),
        chars(Literal("[\\u0300-\\u036F\\u203F-\\u2040]")), Str("]")>>)

Name == reg(<<exports["NameStartChar"], exports["NameChar"], Str("*")>>)

\* An NCNameStartChar from which ":" was not subtracted.
NCNameStartChar_with_colon == exports["NameStartChar"]

NCNameStartChar == chars_without(exports["NameStartChar"], Str(":"))

NCNameChar == chars_without(exports["NameChar"], Str(":"))

NCName == reg(<<exports["NCNameStartChar"], exports["NCNameChar"], Str("*")>>)

QName == reg(<<exports["NCName"], regg(<<Str(":"), exports["NCName"]>>), Str("?")>>)

QName_exact == reg(<<Str("^"), exports["QName"], Str("$")>>)

QName_group == reg(<<Str("("), exports["QName"], Str(")")>>)

SystemLiteral == regg(<<Literal("\"[^\"]*\"|'[^']*'")>>)

\* A PI whose body is captured greedily.
PI_greedy ==
  reg(<<Literal("^<\\?"), Str("("), exports["Name"], Str(")"),
        regg(<<exports["S"], Str("("), exports["Char"], Str("*)")>>), Str("?"),
        Literal("\\?>")>>)

PI ==
  reg(<<Literal("^<\\?"), Str("("), exports["Name"], Str(")"),
        regg(<<exports["S"], Str("("), exports["Char"], Str("*?)")>>), Str("?"),
        Literal("\\?>")>>)

PubidChar == Literal("[\\x20\\x0D\\x0Aa-zA-Z0-9-'()+,./:=?;!*#@$_%]")

PubidLiteral ==
  regg(<<Str("\""), exports["PubidChar"], Str("*\""), Str("|"), Str("'"),
         chars_without(exports["PubidChar"], Str("'")), Str("*'")>>)

COMMENT_START == Str("<!--")

COMMENT_END == Str("-->")

\* A Comment from whose characters "-" was not subtracted.
Comment_with_hyphens ==
  reg(<<exports["COMMENT_START"],
        regg(<<exports["Char"], Str("|"), reg(<<Str("-"), exports["Char"]>>)>>),
        Str("*"), exports["COMMENT_END"]>>)

Comment ==
  reg(<<exports["COMMENT_START"],
        regg(<<chars_without(exports["Char"], Str("-")), Str("|"),
               reg(<<Str("-"), chars_without(exports["Char"], Str("-"))>>)>>),
        Str("*"), exports["COMMENT_END"]>>)

SYSTEM == Str("SYSTEM")

PUBLIC == Str("PUBLIC")

\* An ExternalID_match whose group SystemLiteralOnly opens before the
\* white space.
ExternalID_match_wide ==
  reg(<<Str("^"),
        regg(<<regg(<<exports["SYSTEM"], Str("(?<SystemLiteralOnly>"), exports["S"],
                      exports["SystemLiteral"], Str(")")>>),
               Str("|"),
               regg(<<exports["PUBLIC"], exports["S"], Str("(?<PubidLiteral>"),
                      exports["PubidLiteral"], Str(")"), exports["S"],
                      Str("(?<SystemLiteral>"), exports["SystemLiteral"], Str(")")>>)>>)>>)

ExternalID_match ==
  reg(<<Str("^"),
        regg(<<regg(<<exports["SYSTEM"], exports["S"], Str("(?<SystemLiteralOnly>"),
                      exports["SystemLiteral"], Str(")")>>),
               Str("|"),
               regg(<<exports["PUBLIC"], exports["S"], Str("(?<PubidLiteral>"),
                      exports["PubidLiteral"], Str(")"), exports["S"],
                      Str("(?<SystemLiteral>"), exports["SystemLiteral"], Str(")")>>)>>)>>)

\* The statements with the flag written after the first production.
Statements_flag_late ==
  <<"Char", "UNICODE_SUPPORT", "Char_astral", "_SChar", "SChar_s", "S", "S_OPT",
    "NameStartChar", "NameStartChar_astral", "NameStartChar_s", "NameChar", "Name",
    "NCNameStartChar", "NCNameChar", "NCName", "QName", "QName_exact", "QName_group",
    "SystemLiteral", "PI", "PubidChar", "PubidLiteral", "COMMENT_START", "COMMENT_END",
    "Comment", "SYSTEM", "PUBLIC", "ExternalID_match">>

\* The module-level statements, in source order.  The two "_astral"
\* statements are the assignments guarded by `if (UNICODE_SUPPORT)`.
Statements ==
  <<"UNICODE_SUPPORT", "Char", "Char_astral", "_SChar", "SChar_s", "S", "S_OPT",
    "NameStartChar", "NameStartChar_astral", "NameStartChar_s", "NameChar", "Name",
    "NCNameStartChar", "NCNameChar", "NCName", "QName", "QName_exact", "QName_group",
    "SystemLiteral", "PI", "PubidChar", "PubidLiteral", "COMMENT_START", "COMMENT_END",
    "Comment", "SYSTEM", "PUBLIC", "ExternalID_match">>

Guarded(id) == id \in {"Char_astral", "NameStartChar_astral"}

\* The binding a statement writes.
Target(id) ==
  CASE id = "Char_astral" -> "Char"
    [] id = "NameStartChar_astral" -> "NameStartChar"
    [] OTHER -> id

Bindings == {Target(Statements[k]) : k \in 2..Len(Statements)}

\* The value a statement assigns.
Initialiser(id) ==
  CASE id = "UNICODE_SUPPORT" -> detectUnicodeSupport(Undefined)
    [] id = "Char" -> Char
    [] id = "Char_astral" -> Char_astral
    [] id = "_SChar" -> SChar
    [] id = "SChar_s" -> SChar_s
    [] id = "S" -> S
    [] id = "S_OPT" -> S_OPT
    [] id = "NameStartChar" -> NameStartChar
    [] id = "NameStartChar_astral" -> NameStartChar_astral
    [] id = "NameStartChar_s" -> NameStartChar_s
    [] id = "NameChar" -> NameChar
    [] id = "Name" -> Name
    [] id = "NCNameStartChar" -> NCNameStartChar
    [] id = "NCNameChar" -> NCNameChar
    [] id = "NCName" -> NCName
    [] id = "QName" -> QName
    [] id = "QName_exact" -> QName_exact
    [] id = "QName_group" -> QName_group
    [] id = "SystemLiteral" -> SystemLiteral
    [] id = "PI" -> PI
    [] id = "PubidChar" -> PubidChar
    [] id = "PubidLiteral" -> PubidLiteral
    [] id = "COMMENT_START" -> COMMENT_START
    [] id = "COMMENT_END" -> COMMENT_END
    [] id = "Comment" -> Comment
    [] id = "SYSTEM" -> SYSTEM
    [] id = "PUBLIC" -> PUBLIC
    [] id = "ExternalID_match" -> ExternalID_match

Idle == [op |-> "idle"]

Loaded == pc = Len(Statements) + 1

\* One module-level statement runs.  An exception halts the load.
Load ==
  /\ pc \in 1..Len(Statements)
  /\ LET id == Statements[pc]
         v  == Initialiser(id)
     IN IF Guarded(id) /\ ~Truthy(UNICODE_SUPPORT)
        THEN pc' = pc + 1 /\ UNCHANGED <<UNICODE_SUPPORT, exports, log>>
        ELSE IF Threw(v)
        THEN pc' = 0 /\ UNCHANGED <<UNICODE_SUPPORT, exports, log>>
        ELSE /\ pc' = pc + 1
             /\ log' = Append(log, Target(id))
             /\ IF id = "UNICODE_SUPPORT"
                THEN UNICODE_SUPPORT' = v /\ UNCHANGED exports
                ELSE exports' = [exports EXCEPT ![Target(id)] = v] /\ UNCHANGED UNICODE_SUPPORT
  /\ UNCHANGED <<RegExp, call>>

\* The engines the module may be loaded on: one that rejects the u flag,
\* one that matches the probe as one code point of two units, one that
\* accepts the flag and fails to match.
AmbientEngines ==
  {Engine("throws", "null", 0), Engine("returns", "match", 2), Engine("returns", "null", 0)}

Init ==
  /\ RegExp \in AmbientEngines
  /\ UNICODE_SUPPORT = Undefined
  /\ exports = [n \in Bindings |-> Undefined]
  /\ pc = 1
  /\ log = <<>>
  /\ call = Idle

(***************************************************************************)
(* The clients: once the module is loaded, a client calls one of its       *)
(* functions, or matches one of its productions against a subject.         *)
(***************************************************************************)

MaxBody == 3
MaxParts == 2
MaxMatchLength == 3
MaxSubject == 3
MaxPIBody == 2
MaxCommentBody == 3

RECURSIVE Words(_, _)
\* The strings of at most n characters of the alphabet.
Words(alphabet, n) ==
  IF n = 0 THEN {""}
  ELSE Words(alphabet, n - 1) \cup {w \o c : w \in Words(alphabet, n - 1), c \in alphabet}

\* The patterns handed to chars and chars_without: every pattern that
\* opens a class and goes on with at most MaxBody + 1 of these characters,
\* two longer classes, and three patterns that do not open with a class.
ClassAlphabet == {"[", "]", "-", "^", "a", "z"}

ClassSources ==
  {"[" \o v : v \in Words(ClassAlphabet, MaxBody + 1)} \cup {"[za-a]", "[a-zz]"}

ClassPatterns ==
  {Literal(s) : s \in {w \in ClassSources : Parse(w, "").ok}}
  \cup {Literal("a"), Literal("a[z]"), Literal("(?:)")}

\* The characters a class is tried on, as one-unit subjects.
ClassSubjects == {Units(c) : c \in ClassAlphabet \cup {"b"}}

\* The subjects of the set that the value matches, when it is a pattern.
Accepts(regexp, subjects) ==
  IF Threw(regexp) THEN {} ELSE {s \in subjects : test(regexp, s)}

\* The search arguments handed to chars_without.
Searches ==
  {Str(c) : c \in ClassAlphabet} \cup
  {Str(""), Str("b"), Str("az"), Str("a-"), Str("]z"), Undefined, Num(1)}

\* The argument lists handed to reg and regg.
Parts == {Str("|"), Str("a"), Str("b*"), Literal("[0-9]")}

RECURSIVE ArgLists(_)
ArgLists(n) ==
  IF n = 0 THEN {<<>>}
  ELSE ArgLists(n - 1) \cup {Append(a, part) : a \in ArgLists(n - 1), part \in Parts}

\* The arguments handed to detectUnicodeSupport.
Engines ==
  {Engine("throws", "null", 0)} \cup
  {Engine("returns", e, 0) : e \in {"throws", "null", "empty"}} \cup
  {Engine("returns", "match", n) : n \in 0..MaxMatchLength}

ProbeArguments == {Undefined, Str("RegExp"), Num(0)} \cup Engines

CallDetectUnicodeSupport ==
  /\ Loaded /\ call = Idle
  /\ \E RegExpImpl \in ProbeArguments :
       call' = [op |-> "detectUnicodeSupport", RegExpImpl |-> RegExpImpl,
                result |-> detectUnicodeSupport(RegExpImpl)]
  /\ UNCHANGED <<RegExp, UNICODE_SUPPORT, exports, pc, log>>

CallChars ==
  /\ Loaded /\ call = Idle
  /\ \E regexp \in ClassPatterns :
       call' = [op |-> "chars", regexp |-> regexp, result |-> chars(regexp)]
  /\ UNCHANGED <<RegExp, UNICODE_SUPPORT, exports, pc, log>>

CallCharsWithout ==
  /\ Loaded /\ call = Idle
  /\ \E regexp \in ClassPatterns, search \in Searches :
       call' = [op |-> "chars_without", regexp |-> regexp, search |-> search,
                result |-> chars_without(regexp, search),
                was |-> Accepts(regexp, ClassSubjects),
                now |-> Accepts(chars_without(regexp, search), ClassSubjects)]
  /\ UNCHANGED <<RegExp, UNICODE_SUPPORT, exports, pc, log>>

CallReg ==
  /\ Loaded /\ call = Idle
  /\ \E args \in ArgLists(MaxParts) :
       call' = [op |-> "reg", args |-> args, result |-> reg(args)]
  /\ UNCHANGED <<RegExp, UNICODE_SUPPORT, exports, pc, log>>

CallRegg ==
  /\ Loaded /\ call = Idle
  /\ \E args \in ArgLists(MaxParts) :
       call' = [op |-> "regg", args |-> args, result |-> regg(args)]
  /\ UNCHANGED <<RegExp, UNICODE_SUPPORT, exports, pc, log>>

\* The subjects matched against the name productions: the strings of at
\* most MaxSubject of these characters, and the four of the specification.
NameAlphabet == {"a", "1", ":", "\n"}

NameSubjects ==
  {Units(w) : w \in Words(NameAlphabet, MaxSubject) \cup {"ns:local", "local", "a:b:c", "1abc"}}

ExecName ==
  /\ Loaded /\ call = Idle
  /\ \E name \in {"Name", "NCName", "QName_exact"}, subject \in NameSubjects :
       call' = [op |-> "exec", name |-> name, subject |-> subject,
                match |-> exec(exports[name], subject)]
  /\ UNCHANGED <<RegExp, UNICODE_SUPPORT, exports, pc, log>>

\* A code point as a string: one code unit, or a surrogate pair.
Utf16(cp) ==
  IF cp < 65536 THEN <<cp>>
  ELSE <<55296 + ((cp - 65536) \div 1024), 56320 + ((cp - 65536) % 1024)>>

\* The ranges NameStartChar lists below U+10000, and the astral range it
\* may list.
ListedRanges ==
  {<<58, 58>>, <<95, 95>>, <<97, 122>>, <<65, 90>>, <<192, 214>>, <<216, 246>>, <<248, 767>>,
   <<880, 8191>>, <<8204, 8205>>, <<8304, 8591>>, <<11264, 12271>>, <<12289, 55295>>,
   <<63744, 64975>>, <<65008, 65533>>, <<65536, 1114111>>}

\* The code points NameStartChar is tried on: the two ends of each range it
\* lists and their neighbours, the surrogates' ends, and the ends of the
\* gap U+037E and of the planes above U+EFFFF.
CodePoints ==
  {cp \in UNION {{r[1] - 1, r[1], r[2], r[2] + 1} : r \in ListedRanges} : cp <= 1114111}
  \cup {893, 894, 895, 56319, 56320, 57343, 57344, 983039, 983040}

ExecNameStartChar ==
  /\ Loaded /\ call = Idle
  /\ \E cp \in CodePoints :
       call' = [op |-> "exec", name |-> "NameStartChar", cp |-> cp, subject |-> Utf16(cp),
                match |-> exec(exports["NameStartChar"], Utf16(cp))]
  /\ UNCHANGED <<RegExp, UNICODE_SUPPORT, exports, pc, log>>

\* The subjects matched against ExternalID_match: a keyword, white space,
\* a literal, white space and a second literal, each of them possibly
\* missing or malformed, on the first or on the second line.
Keywords == {"SYSTEM", "PUBLIC", "SYSTEMS"}

Gaps == {"", " ", "\n\t"}

Quoted == {"\"a\"", "'a'", "\"\"", "'\"'", "\"'\"", "\"<\"", "'a"}

ExternalIDSubjects ==
  {Units(lead \o keyword \o gap \o first \o between \o second) :
     lead \in {"", "a\n"}, keyword \in Keywords, gap \in Gaps, first \in Quoted,
     between \in {"", " "}, second \in Quoted \cup {""}}

\* match.groups, each group as text.
Groups(match, subject) ==
  [name \in {match.names[k] : k \in 1..Len(match.names)} |-> GroupOf(match, name, subject)]

\* The record of an exec whose result has named groups.
Executed(name, subject, match) ==
  [op |-> "exec", name |-> name, subject |-> subject, match |-> match,
   groups |-> Groups(match, subject)]

ExecExternalID ==
  /\ Loaded /\ call = Idle
  /\ \E subject \in ExternalIDSubjects :
       call' = Executed("ExternalID_match", subject,
                        exec(exports["ExternalID_match"], subject))
  /\ UNCHANGED <<RegExp, UNICODE_SUPPORT, exports, pc, log>>

\* The numbered capture groups of a match, each as text.
Captures(match, subject) ==
  [k \in 1..Len(match.caps) |-> Captured(match.caps[k], subject)]

\* The record of an exec whose result has numbered groups.
ExecutedNumbered(name, subject, match) ==
  [op |-> "exec", name |-> name, subject |-> subject, match |-> match,
   captures |-> Captures(match, subject)]

\* The subjects matched against PI: "<?", a target, white space, a body
\* of at most MaxPIBody of these characters, the close marker and a tail,
\* each of them possibly missing or malformed, on the first or on the
\* second line.
PIAlphabet == {"b", "?", ">", " "}

PISubjects ==
  {Units(lead \o "<?" \o target \o gap \o body \o close \o tail) :
     lead \in {"", "\n"}, target \in {"a", "a:1", "1", ""}, gap \in {"", " ", " \n"},
     body \in Words(PIAlphabet, MaxPIBody), close \in {"?>", ""}, tail \in {"", "b?>"}}

ExecPI ==
  /\ Loaded /\ call = Idle
  /\ \E subject \in PISubjects :
       call' = ExecutedNumbered("PI", subject, exec(exports["PI"], subject))
  /\ UNCHANGED <<RegExp, UNICODE_SUPPORT, exports, pc, log>>

\* The subjects matched against Comment: "<!--", a body of at most
\* MaxCommentBody of these characters (or one of the two bodies of the
\* specification), and a close marker, whole or cut short, after nothing
\* or after another character.
CommentAlphabet == {"a", "-", ">"}

CommentSubjects ==
  {Units(lead \o "<!--" \o body \o close) :
     lead \in {"", "a"}, body \in Words(CommentAlphabet, MaxCommentBody) \cup {"a--b"},
     close \in {"-->", "->", ""}}

ExecComment ==
  /\ Loaded /\ call = Idle
  /\ \E subject \in CommentSubjects :
       call' = [op |-> "exec", name |-> "Comment", subject |-> subject,
                match |-> exec(exports["Comment"], subject)]
  /\ UNCHANGED <<RegExp, UNICODE_SUPPORT, exports, pc, log>>

\* The call returns.
Return ==
  /\ call # Idle
  /\ call' = Idle
  /\ UNCHANGED <<RegExp, UNICODE_SUPPORT, exports, pc, log>>

Next ==
  \/ Load
  \/ CallDetectUnicodeSupport
  \/ CallChars
  \/ CallCharsWithout
  \/ CallReg
  \/ CallRegg
  \/ ExecName
  \/ ExecNameStartChar
  \/ ExecExternalID
  \/ ExecPI
  \/ ExecComment
  \/ Return

Spec == Init /\ [][Next]_vars

(***************************************************************************)
(* The properties.                                                         *)
(***************************************************************************)

\* The value is the Error the layer throws for a misuse.
UsageError(v) == Threw(v) /\ v.error = "Error"

IsPattern(v) == v.type = "RegExp"

\* The source is one bracket expression: it opens with "[" and its first
\* "]" is its last character (these sources hold no backslash).
IsBracketExpression(source) ==
  /\ Ch(source, 1) = "["
  /\ Ch(source, Len(source)) = "]"
  /\ \A k \in 1..(Len(source) - 1) : Ch(source, k) # "]"

\* The text strictly between the opening "[" and the closing "]".
ClassBody(source) == Sub(source, 2, Len(source) - 1)

SingleCharacter(v) == v.type = "string" /\ Len(v.value) = 1

\* text occurs in str.
OccursIn(text, str) == \E k \in 1..Len(str) : Sub(str, k, k + Len(text) - 1) = text

\* out is str without its first character c.
WithoutFirst(str, c, out) ==
  \E k \in 1..Len(str) :
     /\ Ch(str, k) = c
     /\ \A h \in 1..(k - 1) : Ch(str, h) # c
     /\ out = Sub(str, 1, k - 1) \o Sub(str, k + 1, Len(str))

\* The class body lists literal characters only (none of [ ] \ ^ -), and c
\* is listed once.
ListsOnce(source, c) ==
  /\ IsBracketExpression(source)
  /\ \A k \in 2..(Len(source) - 1) : Ch(source, k) \notin {"[", "]", "\\", "^", "-"}
  /\ Cardinality({k \in 2..(Len(source) - 1) : Ch(source, k) = c}) = 1

\* C1 as stated: for a bracket expression P and a single character t that
\* chars_without accepts, the result matches exactly the characters P
\* matches except t.
C1_Original ==
  (/\ call.op = "chars_without"
   /\ IsPattern(call.result)
   /\ IsBracketExpression(call.regexp.source)
   /\ SingleCharacter(call.search))
  => call.now = call.was \ {Units(call.search.value)}

\* C1 as amended: for a pattern P and a single character t that
\* chars_without accepts, the source of the result is the source of P
\* without the first occurrence of t; the result matches exactly the
\* characters P matches except t when the class body lists literal
\* characters only and lists t once; chars_without(/[a-z]/, "a") is /[-z]/,
\* which matches "-" and "z" and neither "a" nor "b".
C1_Amended ==
  (/\ call.op = "chars_without"
   /\ IsPattern(call.result)
   /\ SingleCharacter(call.search))
  => /\ WithoutFirst(call.regexp.source, call.search.value, call.result.source)
     /\ ListsOnce(call.regexp.source, call.search.value)
          => call.now = call.was \ {Units(call.search.value)}
     /\ (call.regexp.source = "[a-z]" /\ call.search.value = "a")
          => call.result.source = "[-z]" /\ call.now = {Units("-"), Units("z")}

C1_Witness ==
  /\ call.op = "chars_without"
  /\ call.regexp.source = "[az]"
  /\ call.search = Str("a")
  /\ IsPattern(call.result)
  /\ call.result.source = "[z]"
  /\ call.was = {Units("a"), Units("z")}
  /\ call.now = {Units("z")}

\* C2 as stated: chars_without throws a usage error whenever the source
\* does not start with "[", the token is empty or not a string, the token
\* does not occur in the class body, or the token is "-" and "-" is not
\* the first character of the class body; when none holds it returns a
\* pattern.  (Stated of the sources that are one bracket expression, or do
\* not open with "[".)
C2_Original ==
  (/\ call.op = "chars_without"
   /\ Ch(call.regexp.source, 1) = "[" => IsBracketExpression(call.regexp.source))
  => IF \/ Ch(call.regexp.source, 1) # "["
        \/ call.search.type # "string"
        \/ call.search.value = ""
        \/ ~OccursIn(call.search.value, ClassBody(call.regexp.source))
        \/ call.search.value = "-" /\ Ch(ClassBody(call.regexp.source), 1) # "-"
     THEN UsageError(call.result)
     ELSE IsPattern(call.result)

\* C2 as amended: chars_without throws a usage error exactly when the
\* source does not start with "[", the token is empty or not a string, the
\* token does not occur in the source (the brackets and all that follows
\* them included), or the token is "-" and the first "-" of the source is
\* not the character after the opening "["; otherwise it builds a pattern
\* from the source without the first occurrence of the token and returns
\* it, unless the engine rejects that text with a SyntaxError; on /[-az]/
\* both token "a" and token "-" give a pattern.
C2_Amended ==
  call.op = "chars_without"
  => IF \/ Ch(call.regexp.source, 1) # "["
        \/ call.search.type # "string"
        \/ call.search.value = ""
        \/ ~OccursIn(call.search.value, call.regexp.source)
        \/ call.search.value = "-" /\ Ch(call.regexp.source, 2) # "-"
     THEN UsageError(call.result)
     ELSE /\ IsPattern(call.result) \/ (Threw(call.result) /\ call.result.error = "SyntaxError")
          /\ (call.regexp.source = "[-az]" /\ call.search.value \in {"a", "-"})
               => IsPattern(call.result)

C2_Witness ==
  /\ call.op = "chars_without"
  /\ call.regexp.source = "[a-z]"
  /\ call.search = Str("-")
  /\ UsageError(call.result)

\* A token found outside the class body is removed just the same.
C2_WitnessOutside ==
  /\ call.op = "chars_without"
  /\ call.regexp.source = "[a]"
  /\ call.search = Str("[")
  /\ IsPattern(call.result)
  /\ call.result.source = "a]"

\* C3: for a pattern whose source is "[" X "]", chars returns X; for a
\* pattern whose source does not start with "[", chars throws.
C3_CharsLeftInverse ==
  call.op = "chars"
  => /\ (Ch(call.regexp.source, 1) = "[" /\ Ch(call.regexp.source, Len(call.regexp.source)) = "]")
          => call.result = Str(ClassBody(call.regexp.source))
     /\ Ch(call.regexp.source, 1) # "[" => UsageError(call.result)

C3_Witness ==
  /\ call.op = "chars"
  /\ call.regexp.source = "[a]]"
  /\ call.result = Str("a]")

RECURSIVE Joined(_)
\* The texts of the parts, one after the other.
Joined(parts) ==
  IF parts = <<>> THEN ""
  ELSE (IF Head(parts).type = "string" THEN Head(parts).value ELSE Head(parts).source)
       \o Joined(Tail(parts))

HasBar(args) == \E k \in 1..Len(args) : args[k] = Str("|")

\* C4: a call of reg one of whose arguments is the string "|" throws a
\* usage error and gives no pattern; regg takes the same argument and
\* returns the pattern of the parts, the "|" among them, inside (?: ).
C4_BarOnlyInGroup ==
  /\ (call.op = "reg" /\ HasBar(call.args)) => UsageError(call.result)
  /\ (call.op = "regg" /\ HasBar(call.args))
       => /\ IsPattern(call.result)
          /\ call.result.source = "(?:" \o Joined(call.args) \o ")"

C4_Witness ==
  /\ call.op = "reg"
  /\ call.args = <<Str("a"), Str("|")>>
  /\ UsageError(call.result)

C4_WitnessGroup ==
  /\ call.op = "regg"
  /\ call.args = <<Str("a"), Str("|")>>
  /\ IsPattern(call.result)
  /\ call.result.source = "(?:a|)"

\* The engine detectUnicodeSupport probes: its argument when that is a
\* function, the ambient RegExp otherwise.
Probed == IF call.RegExpImpl.type = "function" THEN call.RegExpImpl ELSE RegExp

\* C5: detectUnicodeSupport never throws; it returns true exactly when the
\* engine it probes (the ambient one when the argument is no function)
\* constructs the probe pattern and its exec gives a match whose text has
\* length 2, and false otherwise.
C5_ProbeNeverThrows ==
  call.op = "detectUnicodeSupport"
  => /\ call.result.type = "boolean"
     /\ call.result.value
          = (Probed.construct = "returns" /\ Probed.exec = "match" /\ Probed.length = 2)

C5_Witness ==
  /\ call.op = "detectUnicodeSupport"
  /\ call.RegExpImpl = Engine("returns", "throws", 0)
  /\ call.result = Bool(FALSE)

\* The flags of a pattern that has the multiline flag, the unicode flag
\* exactly when UNICODE_SUPPORT is true, and no other.
MultilineFlags == IF Truthy(UNICODE_SUPPORT) THEN "mu" ELSE "m"

\* The same without the multiline flag.
PlainFlags == IF Truthy(UNICODE_SUPPORT) THEN "u" ELSE ""

\* C6 as stated: every pattern the layer creates or exports has the
\* multiline flag, the unicode flag exactly when UNICODE_SUPPORT is true,
\* and no other flag: the results of reg, regg and chars_without alike.
C6_Original ==
  /\ (call.op \in {"reg", "regg", "chars_without"} /\ IsPattern(call.result))
       => call.result.flags = MultilineFlags
  /\ Loaded => \A name \in Bindings :
                 IsPattern(exports[name]) => exports[name].flags = MultilineFlags

\* The productions written as regular expression literals, and those that
\* chars_without returns.
LiteralProductions ==
  {"_SChar", "PubidChar"} \cup
  (IF Truthy(UNICODE_SUPPORT) THEN {} ELSE {"Char", "NameStartChar"})

SubtractedProductions == {"NCNameStartChar", "NCNameChar"}

\* C6 as amended: every pattern reg or regg returns has the multiline
\* flag, the unicode flag exactly when UNICODE_SUPPORT is true, and no
\* other flag; every pattern chars_without returns (NCNameStartChar and
\* NCNameChar among them) has the unicode flag exactly when
\* UNICODE_SUPPORT is true and no other flag, the multiline flag
\* included; the productions written as literals have no flag; no pattern
\* has the case-insensitive flag.
C6_Amended ==
  /\ (call.op \in {"reg", "regg"} /\ IsPattern(call.result))
       => call.result.flags = MultilineFlags
  /\ (call.op = "chars_without" /\ IsPattern(call.result))
       => call.result.flags = PlainFlags
  /\ Loaded => \A name \in Bindings :
                 IsPattern(exports[name])
                 => exports[name].flags =
                      (CASE name \in LiteralProductions -> ""
                         [] name \in SubtractedProductions -> PlainFlags
                         [] OTHER -> MultilineFlags)

C6_Witness ==
  /\ call.op = "chars_without"
  /\ IsPattern(call.result)
  /\ Truthy(UNICODE_SUPPORT)
  /\ call.result.flags = "u"
  /\ exports["NCNameChar"].flags = "u"
  /\ exports["NCName"].flags = "mu"

\* The code points of rule [4] NameStartChar of XML 1.1 below U+10000, and
\* those of rule [4a] NameChar.
InRule4(cp) ==
  \/ cp \in {58, 95}
  \/ cp \in 65..90 \/ cp \in 97..122
  \/ cp \in 192..214 \/ cp \in 216..246 \/ cp \in 248..767
  \/ cp \in 880..893 \/ cp \in 895..8191
  \/ cp \in 8204..8205 \/ cp \in 8304..8591 \/ cp \in 11264..12271
  \/ cp \in 12289..55295 \/ cp \in 63744..64975 \/ cp \in 65008..65533

InRule4a(cp) ==
  \/ InRule4(cp)
  \/ cp \in {45, 46, 183}
  \/ cp \in 48..57 \/ cp \in 768..879 \/ cp \in 8255..8256

\* s is an NCName: a Name that holds no ":".
IsNCName(s) ==
  /\ Len(s) >= 1
  /\ InRule4(s[1])
  /\ \A k \in 1..Len(s) : InRule4a(s[k]) /\ s[k] # 58

\* s is a QName: an NCName, or two of them with one ":" between.
IsQName(s) ==
  \/ IsNCName(s)
  \/ \E k \in 2..(Len(s) - 1) :
        s[k] = 58 /\ IsNCName(SubSeq(s, 1, k - 1)) /\ IsNCName(SubSeq(s, k + 1, Len(s)))

\* C7: QName_exact matches a string exactly when the whole string is a
\* QName (an NCName, or NCName ":" NCName).
C7_QNameExactWholeString ==
  (call.op = "exec" /\ call.name = "QName_exact")
  => (call.match.found <=> IsQName(call.subject))

\* C8: no text NCName matches holds ":", and NCName matches nothing in a
\* string of ":" alone; Name matches the whole of a string of name
\* characters that holds ":".
C8_NCNameExcludesColon ==
  /\ (call.op = "exec" /\ call.name = "NCName")
       => /\ call.match.found
               => \A k \in (call.match.index + 1)..call.match.end : call.subject[k] # 58
          /\ (\A k \in 1..Len(call.subject) : call.subject[k] = 58) => ~call.match.found
  /\ (/\ call.op = "exec" /\ call.name = "Name"
      /\ Len(call.subject) >= 1
      /\ \A k \in 1..Len(call.subject) : call.subject[k] \in {58, 97})
       => /\ call.match.found
          /\ Matched(call.match, call.subject) = call.subject

C8_Witness ==
  /\ call.op = "exec"
  /\ call.name = "NCName"
  /\ call.subject = Units("a:a")
  /\ call.match.found
  /\ Matched(call.match, call.subject) = Units("a")

C8_WitnessName ==
  /\ call.op = "exec"
  /\ call.name = "Name"
  /\ call.subject = Units("a:a")
  /\ call.match.found
  /\ Matched(call.match, call.subject) = Units("a:a")

IsSpace(c) == c \in {32, 9, 13, 10}

\* The first index from p on that holds no white space.
SkipSpace(s, p) ==
  CHOOSE k \in p..(Len(s) + 1) :
     /\ k <= Len(s) => ~IsSpace(s[k])
     /\ \A h \in p..(k - 1) : IsSpace(s[h])

\* The index of the quote that closes the literal opened at p.
CloseOf(s, p) ==
  CHOOSE k \in (p + 1)..Len(s) : s[k] = s[p] /\ \A h \in (p + 1)..(k - 1) : s[h] # s[p]

\* The literal opened at p, with its quotes.
LiteralAt(s, p) == SubSeq(s, p, CloseOf(s, p))

NotCaptured == <<-1>>

\* The groups of a match of the SYSTEM form at index `at`.
SystemForm(s, at, groups) ==
  /\ groups["SystemLiteralOnly"] = LiteralAt(s, SkipSpace(s, at + 7))
  /\ groups["PubidLiteral"] = NotCaptured
  /\ groups["SystemLiteral"] = NotCaptured

\* The groups of a match of the PUBLIC form at index `at`.
PublicForm(s, at, groups) ==
  /\ groups["PubidLiteral"] = LiteralAt(s, SkipSpace(s, at + 7))
  /\ groups["SystemLiteral"]
       = LiteralAt(s, SkipSpace(s, CloseOf(s, SkipSpace(s, at + 7)) + 1))
  /\ groups["SystemLiteralOnly"] = NotCaptured

\* C9: when ExternalID_match matches, one form is captured: for the
\* SYSTEM form the group SystemLiteralOnly is the system literal with its
\* quotes and PubidLiteral and SystemLiteral are undefined; for the PUBLIC
\* form PubidLiteral and SystemLiteral are the two literals with their
\* quotes and SystemLiteralOnly is undefined.
C9_ExternalIDGroups ==
  (call.op = "exec" /\ call.name = "ExternalID_match" /\ call.match.found)
  => IF SubSeq(call.subject, call.match.index + 1, call.match.index + 6) = Units("SYSTEM")
     THEN SystemForm(call.subject, call.match.index, call.groups)
     ELSE /\ SubSeq(call.subject, call.match.index + 1, call.match.index + 6) = Units("PUBLIC")
          /\ PublicForm(call.subject, call.match.index, call.groups)

C9_Witness ==
  /\ call.op = "exec"
  /\ call.name = "ExternalID_match"
  /\ call.subject = Units("SYSTEM \"a\"")
  /\ call.match.found
  /\ call.groups["SystemLiteralOnly"] = Units("\"a\"")
  /\ call.groups["PubidLiteral"] = NotCaptured

C9_WitnessPublic ==
  /\ call.op = "exec"
  /\ call.name = "ExternalID_match"
  /\ call.subject = Units("PUBLIC 'a' \"a\"")
  /\ call.match.found
  /\ call.groups["PubidLiteral"] = Units("'a'")
  /\ call.groups["SystemLiteral"] = Units("\"a\"")
  /\ call.groups["SystemLiteralOnly"] = NotCaptured

\* C10: NameStartChar matches a code point exactly when rule [4] lists
\* it: one of the ranges below U+10000, or U+10000..U+EFFFF when
\* UNICODE_SUPPORT is true.
C10_NameStartCharIsRule4 ==
  (call.op = "exec" /\ call.name = "NameStartChar")
  => ((call.match.found /\ Matched(call.match, call.subject) = call.subject)
      <=> (InRule4(call.cp) \/ (Truthy(UNICODE_SUPPORT) /\ call.cp \in 65536..983039)))

\* The close marker "?>" stands at index p of s.
ClosesAt(s, p) == p + 1 <= Len(s) /\ s[p] = 63 /\ s[p + 1] = 62

\* The index of the first close marker at or after p.
FirstClose(s, p) ==
  CHOOSE c \in p..Len(s) : ClosesAt(s, c) /\ \A h \in p..(c - 1) : ~ClosesAt(s, h)

\* The index after the name characters that start at p.
NameEnd(s, p) ==
  CHOOSE e \in p..(Len(s) + 1) :
     /\ e <= Len(s) => ~InRule4a(s[e])
     /\ \A h \in p..(e - 1) : InRule4a(s[h])

\* The groups and the end of a match of PI whose target starts at index p
\* and ends before index e.
PIForm(s, p, e, match, captures) ==
  /\ e > p /\ InRule4(s[p])
  /\ captures[1] = SubSeq(s, p, e - 1)
  /\ IF ClosesAt(s, e)
     THEN captures[2] = NotCaptured /\ match.end = e + 1
     ELSE /\ SkipSpace(s, e) > e
          /\ captures[2] = SubSeq(s, SkipSpace(s, e), FirstClose(s, SkipSpace(s, e)) - 1)
          /\ match.end = FirstClose(s, SkipSpace(s, e)) + 1
          /\ \A k \in 1..Len(captures[2]) : ~ClosesAt(captures[2], k)

\* C11: when PI matches, group 1 is the target Name, group 2 is the text
\* between the white space after the target and the first "?>" after it
\* (undefined when "?>" follows the target directly), the match ends with
\* that first "?>", and group 2 holds no "?>".
C11_PIGroups ==
  (call.op = "exec" /\ call.name = "PI" /\ call.match.found)
  => /\ SubSeq(call.subject, call.match.index + 1, call.match.index + 2) = Units("<?")
     /\ PIForm(call.subject, call.match.index + 3,
               NameEnd(call.subject, call.match.index + 3), call.match, call.captures)

C11_Witness ==
  /\ call.op = "exec"
  /\ call.name = "PI"
  /\ call.subject = Units("<?a b?>b?>")
  /\ call.match.found
  /\ call.captures = <<Units("a"), Units("b")>>
  /\ call.match.end = 7

C11_WitnessNoBody ==
  /\ call.op = "exec"
  /\ call.name = "PI"
  /\ call.subject = Units("<?a:1?>")
  /\ call.match.found
  /\ call.captures = <<Units("a:1"), NotCaptured>>

\* The text is "<!--", a body and "-->".
IsMarked(t) ==
  /\ Len(t) >= 7
  /\ SubSeq(t, 1, 4) = Units("<!--")
  /\ SubSeq(t, Len(t) - 2, Len(t)) = Units("-->")

\* The body holds no two adjacent hyphens and does not end with one.
IsCommentBody(b) ==
  /\ \A k \in 1..(Len(b) - 1) : ~(b[k] = 45 /\ b[k + 1] = 45)
  /\ Len(b) >= 1 => b[Len(b)] # 45

\* C12: every text Comment matches starts with "<!--" and ends with
\* "-->", and the body between them holds no two adjacent hyphens and does
\* not end with a hyphen; "<!--a--b-->" and "<!--a--->" are not matched.
C12_CommentBody ==
  (call.op = "exec" /\ call.name = "Comment")
  => /\ call.match.found
          => /\ IsMarked(Matched(call.match, call.subject))
             /\ IsCommentBody(SubSeq(call.subject, call.match.index + 5, call.match.end - 3))
     /\ call.subject \in {Units("<!--a--b-->"), Units("<!--a--->")} => ~call.match.found

C12_Witness ==
  /\ call.op = "exec"
  /\ call.name = "Comment"
  /\ call.subject = Units("a<!---a>-->")
  /\ call.match.found
  /\ Matched(call.match, call.subject) = Units("<!---a>-->")

C12_WitnessRejected ==
  /\ call.op = "exec"
  /\ call.name = "Comment"
  /\ call.subject = Units("<!--a--b-->")
  /\ ~call.match.found

\* No production is written yet.
NothingBuilt == \A name \in Bindings : exports[name] = Undefined

\* The class lists the astral range.
ListsAstral(regexp) == OccursIn("\\u{10000}-\\u{10FFFF}", regexp.source)

\* The flag is written from undefined only, and before any production.
FlagWrite ==
  UNICODE_SUPPORT' # UNICODE_SUPPORT
  => UNICODE_SUPPORT = Undefined /\ UNICODE_SUPPORT'.type = "boolean" /\ NothingBuilt

\* A production is written with the flag set, and does not write the flag.
ProductionWrite ==
  exports' # exports
  => UNICODE_SUPPORT.type = "boolean" /\ UNICODE_SUPPORT' = UNICODE_SUPPORT

\* Once both are written, Char and NameStartChar list the astral range
\* exactly when the flag is true.
VariantFixed ==
  /\ exports["_SChar"] # Undefined => (ListsAstral(exports["Char"]) <=> Truthy(UNICODE_SUPPORT))
  /\ exports["NameStartChar_s"] # Undefined
       => (ListsAstral(exports["NameStartChar"]) <=> Truthy(UNICODE_SUPPORT))

\* C13: UNICODE_SUPPORT is written once, from undefined, before any
\* production is written, and never again; every production is written
\* with the flag set; Char and NameStartChar list the astral range
\* \u{10000}-\u{10FFFF} exactly when the flag is true; and the load writes
\* the flag (a loaded module has it).
C13_FlagWrittenOnce ==
  /\ [][FlagWrite /\ ProductionWrite]_vars
  /\ [](VariantFixed /\ (Loaded => UNICODE_SUPPORT.type = "boolean"))

C13_Witness ==
  /\ Loaded
  /\ UNICODE_SUPPORT = Bool(TRUE)
  /\ log[1] = "UNICODE_SUPPORT"
  /\ Cardinality({k \in 1..Len(log) : log[k] = "UNICODE_SUPPORT"}) = 1
  /\ ListsAstral(exports["Char"])
  /\ ListsAstral(exports["NameStartChar"])

C13_WitnessPlain ==
  /\ Loaded
  /\ UNICODE_SUPPORT = Bool(FALSE)
  /\ ~ListsAstral(exports["Char"])
  /\ ~ListsAstral(exports["NameStartChar"])


=============================================================================
